---- MODULE Spec2Model ----
(***************************************************************************)
(* Model of generate_unittest.py: the validate / classify / repair loop    *)
(* of validate_and_log_tests, the completion client call_azure_openai as   *)
(* seen from the loop, and the failure ledger written to LOG_FILE.         *)
(*                                                                         *)
(* Numbers that are floats in the program (temperature, penalties) are     *)
(* modelled in tenths: 0.4 is 4, 0.1 is 1.                                 *)
(* Texts (stderr of a test run) are sequences of tokens, so that the       *)
(* substring test  "AssertionError" in error_message  is a real search.    *)
(***************************************************************************)
EXTENDS Integers, Sequences, FiniteSets, TLC

\* ---------------------------------------------------------------- bounds
NumFiles == 2        \* entries returned by os.listdir(test_folder)
MaxRuns  == 2        \* calls of validate_and_log_tests on the same folder
MaxStoreFiles == 2   \* source files in metadata["files"]
MaxFuncs == 2        \* function descriptors of one source file

\* ------------------------------------------------------ program constants
MAX_ITERATIONS  == 3
MAX_TOKENS      == 700
BaseTemperature == 4      \* 0.4
TempStep        == 1      \* 0.1
DefaultPenalty  == 0      \* 0.0
HTTP_OK         == 200

Files == 1..NumFiles

\* The marker searched for in stderr, and the stderr texts a test run yields.
Marker == <<"Assertion", "Error">>

ErrTexts == { <<>>,
              <<"Syntax", "Error">>,
              <<"Traceback", "Assertion", "Error">> }

\* Text the synthesizer left in every artifact, and texts a repair returns.
SynthText == "t0"
Texts     == {"t1", "t2"}

\* Status codes of the completion service.
StatusCodes == {200, 500}

\* Return codes of  python -m unittest .
ReturnCodes == {0, 1}

\* Source files of the repository, as (directory, base name); the relative
\* path is the key of metadata["files"].
SourcePaths == { <<"a", "m">>, <<"b", "m">>, <<"a", "n">> }

BaseNames == { p[2] : p \in SourcePaths }

\* file.write("\n\n")
Separator == "nl-nl"

NoRequest == [kind |-> "none"]
NoResult  == [kind |-> "none"]
NoFile    == [kind |-> "absent"]
NoText    == "none"

EmptyLog == [test_issues |-> <<>>, code_issues |-> <<>>]

\* A ledger document left at LOG_FILE by an earlier process.
StaleLog == [test_issues |-> <<>>,
             code_issues |-> << [test_file |-> 1,
                                 error |-> <<"Traceback", "Assertion", "Error">>,
                                 attempt |-> 1] >>]

VARIABLES
    isTest,       \* isTest[f]: name starts with "test_" and ends with ".py"
    content,      \* content[f]: text of the file on disk
    startContent, \* content[f] when the current call of the loop began
    ledgerFile,   \* document at LOG_FILE, or NoFile
    failure_log,  \* the in-memory ledger of the current call
    idx,          \* number of directory entries the outer for has taken
    attempt,      \* loop variable of  for attempt in range(MAX_ITERATIONS)
    pc,           \* "loop", "exec", "call", "done", "aborted"
    request,      \* arguments of the completion call in flight, or NoRequest
    result,       \* last subprocess result, or NoResult
    artState,     \* per artifact: Pending, Running, Repairing, Passed, ...
    version,      \* history: version[f] = overwrites of f in the current call
    lastReply,    \* history: text of the last successful completion for f
    execLog,      \* history: executions of each file in the current call
    reqLog,       \* history: completion requests issued for each file
    appendLog,    \* history: every append to failure_log, in order
    writes,       \* history: number of writes of LOG_FILE in the current call
    run,          \* number of the current call of validate_and_log_tests
    prevClean,    \* prevClean[f]: f passed on attempt 1 in the previous call
    metadata,     \* metadata["files"]: sequence of [path, functions]
    folder,       \* folder[b]: content of test_<b> in UNIT_TESTS_FOLDER, or NoFile
    fi,           \* number of entries of metadata["files"] the outer for has taken
    di,           \* number of functions of entry fi the inner for has taken
    spc,          \* position in main before the loop: "start", "reset", ...
    synthCalls    \* history: completion calls issued by generate_unit_tests

vars == << isTest, content, startContent, ledgerFile, failure_log, idx,
           attempt, pc, request, result, artState, version, lastReply,
           execLog, reqLog, appendLog, writes, run, prevClean,
           metadata, folder, fi, di, spc, synthCalls >>

synthVars == << metadata, folder, fi, di, spc, synthCalls >>

loopVars == << isTest, content, startContent, ledgerFile, failure_log, idx,
               attempt, pc, request, result, artState, version, lastReply,
               execLog, reqLog, appendLog, writes, run, prevClean >>

\* ------------------------------------------------------------ pure helpers

\* needle occurs in hay as a contiguous subsequence ( needle in hay ).
ContainsAsPrefix(hay, needle) ==
    /\ Len(hay) >= Len(needle)
    /\ \A j \in 1..Len(needle) : hay[j] = needle[j]

Contains(hay, needle) ==
    \E i \in 0..(Len(hay) - Len(needle)) :
        \A j \in 1..Len(needle) : hay[i + j] = needle[j]

\* temperature=0.4 + (0.1 * attempt), in tenths; attempt is the loop variable.
RepairTemperature(a) == BaseTemperature + TempStep * a

\* call_azure_openai(deployment, prompt, max_tokens, temperature): the two
\* penalties are not passed by the loop and take their defaults.
RepairRequestNoError(err, test, a) ==
    [kind              |-> "completion",
     prompt            |-> [error |-> <<>>, test |-> test],
     max_tokens        |-> MAX_TOKENS,
     temperature       |-> RepairTemperature(a),
     frequency_penalty |-> DefaultPenalty,
     presence_penalty  |-> DefaultPenalty]

RepairRequest(err, test, a) ==
    [kind              |-> "completion",
     prompt            |-> [error |-> err, test |-> test],
     max_tokens        |-> MAX_TOKENS,
     temperature       |-> RepairTemperature(a),
     frequency_penalty |-> DefaultPenalty,
     presence_penalty  |-> DefaultPenalty]

\* What the history keeps of a request: its parameters, the error text it
\* carries, the version of the file it carries, and the status of the reply.
ReqEntry(req, a, v) ==
    [attempt           |-> a + 1,
     max_tokens        |-> req.max_tokens,
     temperature       |-> req.temperature,
     frequency_penalty |-> req.frequency_penalty,
     presence_penalty  |-> req.presence_penalty,
     error             |-> req.prompt.error,
     version           |-> v,
     status            |-> 0]

\* The record appended to either collection.
FailureRecordZeroBased(f, err, a) ==
    [test_file |-> f, error |-> err, attempt |-> a]

FailureRecord(f, err, a) ==
    [test_file |-> f, error |-> err, attempt |-> a + 1]

\* if result.returncode == 0
SucceededInverted(rc) == rc # 0

Succeeded(rc) == rc = 0

\* if "AssertionError" in error_message: code_issues, else: test_issues
IssueClassAlwaysTest(err) == "test_issues"

IssueClass(err) ==
    IF Contains(err, Marker) THEN "code_issues" ELSE "test_issues"

\* The break that follows the append to code_issues; the test_issues branch
\* has none and goes on to the repair.
BreaksAfterNever(coll) == FALSE

BreaksAfter(coll) == coll = "code_issues"

\* for attempt in range(MAX_ITERATIONS): is there an iteration after a?
LoopContinuesOffByOne(a) == a + 1 <= MAX_ITERATIONS

LoopContinues(a) == a + 1 < MAX_ITERATIONS

\* State of the artifact when the body of the for-attempt loop ends after a
\* repair.
AfterRepair(a) == IF LoopContinues(a) THEN "Running" ELSE "Exhausted"

\* if response.status_code == 200: return ... else: raise Exception(...)
RaisesNever(status) == FALSE

RaisesAlways(status) == TRUE

Raises(status) == status # HTTP_OK

\* open(test_path, "w") then write(fixed_test_code)
OverwriteSkipped(old, text) == old

Overwrite(old, text) == text

\* open(LOG_FILE, "w") then json.dump(failure_log)
LogDocumentMerged(old, log) ==
    IF old = NoFile THEN log
    ELSE [test_issues |-> old.test_issues \o log.test_issues,
          code_issues |-> old.code_issues \o log.code_issues]

LogDocument(old, log) == log

\* ------------------------------------------------------------------- Init
Init ==
    /\ isTest \in [Files -> BOOLEAN]
    /\ content = [f \in Files |-> SynthText]
    /\ startContent = content
    /\ ledgerFile \in {NoFile, StaleLog}
    /\ failure_log = EmptyLog
    /\ idx = 0
    /\ attempt = 0
    /\ pc = "loop"
    /\ request = NoRequest
    /\ result = NoResult
    /\ artState = [f \in Files |-> "Pending"]
    /\ version = [f \in Files |-> 0]
    /\ lastReply = [f \in Files |-> NoText]
    /\ execLog = [f \in Files |-> <<>>]
    /\ reqLog = [f \in Files |-> <<>>]
    /\ appendLog = <<>>
    /\ writes = 0
    /\ run = 1
    /\ prevClean = [f \in Files |-> FALSE]
    /\ metadata = <<>>
    /\ folder = [b \in BaseNames |-> NoFile]
    /\ fi = 0
    /\ di = 0
    /\ spc = "synthesized"
    /\ synthCalls = <<>>

\* ---------------------------------------------------------------- actions

\* for test_file in os.listdir(test_folder): take the next entry; entries
\* that do not match test_*.py are skipped.
NextFile ==
    /\ pc = "loop"
    /\ idx < NumFiles
    /\ idx' = idx + 1
    /\ IF isTest[idx + 1]
          THEN /\ pc' = "exec"
               /\ attempt' = 0
               /\ artState' = [artState EXCEPT ![idx + 1] = "Running"]
          ELSE UNCHANGED << pc, attempt, artState >>
    /\ UNCHANGED << isTest, content, startContent, ledgerFile, failure_log,
                    request, result, version, lastReply, execLog, reqLog,
                    appendLog, writes, run, prevClean >>
    /\ UNCHANGED synthVars

\* subprocess.run(...) returns with (rc, err); the loop body up to the call
\* of the completion client.
Execute(rc, err) ==
    /\ pc = "exec"
    /\ LET f == idx IN
       /\ result' = [kind |-> "result", returncode |-> rc, stderr |-> err]
       /\ execLog' = [execLog EXCEPT ![f] = Append(@,
                        [returncode |-> rc,
                         error |-> IF Succeeded(rc) THEN <<>> ELSE err,
                         attempt |-> attempt + 1,
                         version |-> version[f]])]
       /\ IF Succeeded(rc)
             THEN /\ pc' = "loop"
                  /\ artState' = [artState EXCEPT ![f] = "Passed"]
                  /\ UNCHANGED << failure_log, appendLog, request, reqLog >>
             ELSE LET coll == IssueClass(err)
                      rec  == FailureRecord(f, err, attempt)
                  IN /\ failure_log' = [failure_log EXCEPT ![coll] = Append(@, rec)]
                     /\ appendLog' = Append(appendLog, [coll |-> coll, rec |-> rec])
                     /\ IF BreaksAfter(coll)
                           THEN /\ pc' = "loop"
                                /\ artState' = [artState EXCEPT ![f] = "CodeIssue"]
                                /\ UNCHANGED << request, reqLog >>
                           ELSE /\ request' = RepairRequest(err, content[f], attempt)
                                /\ reqLog' = [reqLog EXCEPT ![f] = Append(@,
                                      ReqEntry(RepairRequest(err, content[f], attempt),
                                               attempt, version[f]))]
                                /\ pc' = "call"
                                /\ artState' = [artState EXCEPT ![f] = "Repairing"]
    /\ UNCHANGED << isTest, content, startContent, ledgerFile, idx, attempt,
                    version, lastReply, writes, run, prevClean >>
    /\ UNCHANGED synthVars

\* requests.post answers with a status code; 200 returns the text, which
\* overwrites the test file, and the for-attempt loop goes on; any other
\* status raises, and nothing catches the exception.
CompletionReturns(status, text) ==
    /\ pc = "call"
    /\ LET f == idx IN
       /\ reqLog' = [reqLog EXCEPT ![f][Len(reqLog[f])].status = status]
       /\ request' = NoRequest
       /\ IF ~Raises(status)
             THEN /\ content' = [content EXCEPT ![f] = Overwrite(@, text)]
                  /\ version' = [version EXCEPT ![f] = @ + 1]
                  /\ lastReply' = [lastReply EXCEPT ![f] = text]
                  /\ attempt' = attempt + 1
                  /\ artState' = [artState EXCEPT ![f] = AfterRepair(attempt)]
                  /\ pc' = IF LoopContinues(attempt) THEN "exec" ELSE "loop"
             ELSE /\ pc' = "aborted"
                  /\ UNCHANGED << content, version, lastReply, attempt, artState >>
    /\ UNCHANGED << isTest, startContent, ledgerFile, failure_log, idx,
                    result, execLog, appendLog, writes, run, prevClean >>
    /\ UNCHANGED synthVars

\* After the outer for: json.dump(failure_log) to LOG_FILE opened with "w".
SaveLog ==
    /\ pc = "loop"
    /\ idx = NumFiles
    /\ ledgerFile' = LogDocument(ledgerFile, failure_log)
    /\ writes' = writes + 1
    /\ pc' = "done"
    /\ UNCHANGED << isTest, content, startContent, failure_log, idx, attempt,
                    request, result, artState, version, lastReply, execLog,
                    reqLog, appendLog, run, prevClean >>
    /\ UNCHANGED synthVars

\* validate_and_log_tests is called again on the same folder: a fresh
\* failure_log; the files on disk are as the previous call left them.
Restart ==
    /\ pc \in {"done", "aborted"}
    /\ run < MaxRuns
    /\ run' = run + 1
    /\ prevClean' = [f \in Files |->
                        /\ artState[f] = "Passed"
                        /\ Len(execLog[f]) = 1]
    /\ startContent' = content
    /\ failure_log' = EmptyLog
    /\ idx' = 0
    /\ attempt' = 0
    /\ pc' = "loop"
    /\ request' = NoRequest
    /\ result' = NoResult
    /\ artState' = [f \in Files |-> "Pending"]
    /\ version' = [f \in Files |-> 0]
    /\ lastReply' = [f \in Files |-> NoText]
    /\ execLog' = [f \in Files |-> <<>>]
    /\ reqLog' = [f \in Files |-> <<>>]
    /\ appendLog' = <<>>
    /\ writes' = 0
    /\ UNCHANGED << isTest, content, ledgerFile >>
    /\ UNCHANGED synthVars

ExecuteAny == \E rc \in ReturnCodes, err \in ErrTexts : Execute(rc, err)

CompletionAny ==
    \E status \in StatusCodes, text \in Texts :
        /\ (status # HTTP_OK => text = "t1")
        /\ CompletionReturns(status, text)

\* One call of the loop.
Next == NextFile \/ ExecuteAny \/ CompletionAny \/ SaveLog

Spec == Init /\ [][Next]_vars

\* One call of the loop in which every blocking call (subprocess.run,
\* requests.post) returns and the single thread then takes its next step.
SpecLive == Init /\ [][Next]_vars /\ WF_vars(Next)

\* Repeated calls of the loop on a folder with at most one test artifact.
InitRerun == Init /\ Cardinality({f \in Files : isTest[f]}) <= 1

NextRerun == NextFile \/ ExecuteAny \/ CompletionAny \/ SaveLog \/ Restart

SpecRerun == InitRerun /\ [][NextRerun]_vars

\* ------------------------------------------- main, steps 1 to 3: synthesis

\* What create_metadata can produce for metadata["files"]: distinct relative
\* paths in walk order, each with its list of function descriptors (a
\* descriptor is identified by its position in the list).
Stores ==
    { st \in UNION { [1..n -> [path : SourcePaths, functions : 0..MaxFuncs]] :
                        n \in 0..MaxStoreFiles } :
        \A i, j \in 1..Len(st) : st[i].path = st[j].path => i = j }

\* What UNIT_TESTS_FOLDER holds before main runs: nothing, or an artifact
\* of an earlier run.
NoFolder    == [b \in BaseNames |-> NoFile]
StaleFolder == [NoFolder EXCEPT !["m"] = <<"old", Separator>>]

\* test_file_name = f"test_{os.path.basename(file_path)}"
ArtifactName(path) == path[2]

\* shutil.rmtree(UNIT_TESTS_FOLDER) then os.makedirs(output_folder)
ClearedFolderKept(old) == old

ClearedFolder(old) == NoFolder

\* open(test_file_path, "a"); write(test_code); write("\n\n")
AppendBlockPrepend(old, text) ==
    <<text, Separator>> \o (IF old = NoFile THEN <<>> ELSE old)

AppendBlock(old, text) ==
    (IF old = NoFile THEN <<>> ELSE old) \o <<text, Separator>>

\* call_azure_openai(deployment, prompt, max_tokens=700, temperature=0.4)
\* for function number d of the file at path.
SynthRequest(path, d) ==
    [path              |-> path,
     function          |-> d,
     max_tokens        |-> MAX_TOKENS,
     temperature       |-> BaseTemperature,
     frequency_penalty |-> DefaultPenalty,
     presence_penalty  |-> DefaultPenalty]

InitSynth ==
    /\ isTest = [f \in Files |-> FALSE]
    /\ content = [f \in Files |-> SynthText]
    /\ startContent = content
    /\ ledgerFile = NoFile
    /\ failure_log = EmptyLog
    /\ idx = 0
    /\ attempt = 0
    /\ pc = "loop"
    /\ request = NoRequest
    /\ result = NoResult
    /\ artState = [f \in Files |-> "Pending"]
    /\ version = [f \in Files |-> 0]
    /\ lastReply = [f \in Files |-> NoText]
    /\ execLog = [f \in Files |-> <<>>]
    /\ reqLog = [f \in Files |-> <<>>]
    /\ appendLog = <<>>
    /\ writes = 0
    /\ run = 1
    /\ prevClean = [f \in Files |-> FALSE]
    /\ metadata = <<>>
    /\ folder \in {NoFolder, StaleFolder}
    /\ fi = 0
    /\ di = 0
    /\ spc = "start"
    /\ synthCalls = <<>>

\* create_metadata then json.load: metadata["files"] is some store.
CreateMetadata(store) ==
    /\ spc = "start"
    /\ metadata' = store
    /\ spc' = "reset"
    /\ UNCHANGED << folder, fi, di, synthCalls >>
    /\ UNCHANGED loopVars

\* if os.path.exists(UNIT_TESTS_FOLDER): shutil.rmtree(...); os.makedirs.
ResetFolder ==
    /\ spc = "reset"
    /\ folder' = ClearedFolder(folder)
    /\ fi' = 0
    /\ di' = 0
    /\ spc' = "files"
    /\ UNCHANGED << metadata, synthCalls >>
    /\ UNCHANGED loopVars

\* for file_path, functions in metadata["files"].items(): next source file.
NextSource ==
    /\ spc = "files"
    /\ fi < Len(metadata)
    /\ fi' = fi + 1
    /\ di' = 0
    /\ spc' = "functions"
    /\ UNCHANGED << metadata, folder, synthCalls >>
    /\ UNCHANGED loopVars

\* for function in functions: one iteration, the completion call answered
\* with (status, text); a non-success status raises out of main.
GenerateTest(status, text) ==
    /\ spc = "functions"
    /\ di < metadata[fi].functions
    /\ LET path == metadata[fi].path
           req  == SynthRequest(path, di + 1)
       IN /\ synthCalls' = Append(synthCalls,
                  [request |-> req, status |-> status,
                   reply |-> IF Raises(status) THEN NoText ELSE text])
          /\ IF ~Raises(status)
                THEN /\ folder' = [folder EXCEPT ![ArtifactName(path)] =
                                      AppendBlock(@, text)]
                     /\ di' = di + 1
                     /\ spc' = "functions"
                ELSE /\ spc' = "aborted"
                     /\ UNCHANGED << folder, di >>
    /\ UNCHANGED << metadata, fi >>
    /\ UNCHANGED loopVars

\* The inner for is exhausted: back to the outer for.
EndSource ==
    /\ spc = "functions"
    /\ di = metadata[fi].functions
    /\ spc' = "files"
    /\ UNCHANGED << metadata, folder, fi, di, synthCalls >>
    /\ UNCHANGED loopVars

\* The outer for is exhausted: generate_unit_tests returns.
EndSynthesis ==
    /\ spc = "files"
    /\ fi = Len(metadata)
    /\ spc' = "synthesized"
    /\ UNCHANGED << metadata, folder, fi, di, synthCalls >>
    /\ UNCHANGED loopVars

CreateMetadataAny == \E store \in Stores : CreateMetadata(store)

GenerateTestAny ==
    \E status \in StatusCodes, text \in Texts :
        /\ (status # HTTP_OK => text = "t1")
        /\ GenerateTest(status, text)

NextSynth ==
    \/ CreateMetadataAny
    \/ ResetFolder
    \/ NextSource
    \/ GenerateTestAny
    \/ EndSource
    \/ EndSynthesis

SpecSynth == InitSynth /\ [][NextSynth]_vars

\* ------------------------------------------------- vocabulary of the claims

\* Records of file f in collection coll of ledger log, in order.
RecordsOf(log, coll, f) == SelectSeq(log[coll], LAMBDA r : r.test_file = f)

\* Records appended for f to either collection, in append order.
AppendedFor(f) == SelectSeq(appendLog, LAMBDA e : e.rec.test_file = f)

FailedExecs(f) == SelectSeq(execLog[f], LAMBDA e : e.returncode # 0)

\* The first k executions of f failed without the marker.
FirstFailPlain(f, k) ==
    /\ Len(execLog[f]) >= k
    /\ \A i \in 1..k : /\ execLog[f][i].returncode # 0
                       /\ ~Contains(execLog[f][i].error, Marker)

\* The test_issues records of f are exactly attempts 1..k, in that order.
TestIssuesAre(f, k) ==
    /\ Len(RecordsOf(failure_log, "test_issues", f)) = k
    /\ \A i \in 1..k :
          /\ RecordsOf(failure_log, "test_issues", f)[i].attempt = i
          /\ RecordsOf(failure_log, "test_issues", f)[i].error = execLog[f][i].error

\* C1: every artifact is executed at most MAX_ITERATIONS times and at most
\* MAX_ITERATIONS regeneration requests are issued for it, whatever the
\* executions return.
C1_BoundedAttempts ==
    \A f \in Files : /\ Len(execLog[f]) <= MAX_ITERATIONS
                     /\ Len(reqLog[f]) <= MAX_ITERATIONS

C1_Witness ==
    \E f \in Files : /\ Len(execLog[f]) = MAX_ITERATIONS
                     /\ Len(reqLog[f]) = MAX_ITERATIONS
                     /\ pc = "done"

\* C2: once a code_issues record exists for an artifact, no step of the run
\* executes it again, issues a regeneration request for it, appends a record
\* for it, or changes its content.
C2_CodeIssueIsFinal ==
    [][ \A f \in Files :
          Len(RecordsOf(failure_log, "code_issues", f)) > 0 =>
             /\ execLog'[f] = execLog[f]
             /\ reqLog'[f] = reqLog[f]
             /\ RecordsOf(failure_log', "code_issues", f)
                   = RecordsOf(failure_log, "code_issues", f)
             /\ RecordsOf(failure_log', "test_issues", f)
                   = RecordsOf(failure_log, "test_issues", f)
             /\ content'[f] = content[f] ]_vars

\* A code issue at attempt 2 of the first artifact, and the run went on to
\* execute the second artifact and finished.
C2_Witness ==
    /\ pc = "done"
    /\ Len(RecordsOf(failure_log, "code_issues", 1)) = 1
    /\ RecordsOf(failure_log, "code_issues", 1)[1].attempt = 2
    /\ Len(execLog[2]) > 0

\* C3: the records of one artifact, both collections together in append
\* order, carry the attempt numbers 1, 2, ..., and the n-th failed execution
\* of the artifact is the one recorded with attempt n.
C3_AttemptNumbers ==
    \A f \in Files :
       /\ Len(AppendedFor(f)) = Len(FailedExecs(f))
       /\ \A i \in 1..Len(AppendedFor(f)) :
             /\ AppendedFor(f)[i].rec.attempt = i
             /\ AppendedFor(f)[i].rec.error = FailedExecs(f)[i].error
             /\ FailedExecs(f)[i].attempt = i

\* Two test_issues records followed by a code_issues record.
C3_Witness ==
    \E f \in Files :
       /\ Len(AppendedFor(f)) = 3
       /\ AppendedFor(f)[2].coll = "test_issues"
       /\ AppendedFor(f)[3].coll = "code_issues"

\* C4: if the first execution of an artifact exits 0, the loop executes it
\* exactly once, issues no regeneration request, appends no record for it
\* and leaves its content as it was (as synthesis wrote it, in the first
\* call); the same holds when the loop is called again on that artifact.
C4_PassFirstAttempt ==
    \A f \in Files :
       (Len(execLog[f]) >= 1 /\ execLog[f][1].returncode = 0) =>
          /\ Len(execLog[f]) = 1
          /\ reqLog[f] = <<>>
          /\ AppendedFor(f) = <<>>
          /\ RecordsOf(failure_log, "test_issues", f) = <<>>
          /\ RecordsOf(failure_log, "code_issues", f) = <<>>
          /\ content[f] = startContent[f]
          /\ version[f] = 0
          /\ artState[f] = "Passed"
          /\ (run = 1 => content[f] = SynthText)

\* The second call on an artifact that passed cleanly in the first call.
C4_Witness ==
    \E f \in Files :
       /\ run = 2
       /\ prevClean[f]
       /\ Len(execLog[f]) = 1
       /\ execLog[f][1].returncode = 0
       /\ pc = "done"
       /\ ledgerFile = EmptyLog

\* C5: if the first execution fails with the marker in its error text,
\* exactly one code_issues record with attempt 1 is appended for the
\* artifact, no test_issues record, no regeneration request is issued and
\* the content is not overwritten.
C5_CodeIssueFirstAttempt ==
    \A f \in Files :
       (/\ Len(execLog[f]) >= 1
        /\ execLog[f][1].returncode # 0
        /\ Contains(execLog[f][1].error, Marker)) =>
          /\ Len(RecordsOf(failure_log, "code_issues", f)) = 1
          /\ RecordsOf(failure_log, "code_issues", f)[1].attempt = 1
          /\ RecordsOf(failure_log, "test_issues", f) = <<>>
          /\ reqLog[f] = <<>>
          /\ Len(execLog[f]) = 1
          /\ content[f] = startContent[f]
          /\ version[f] = 0

C5_Witness ==
    /\ pc = "done"
    /\ execLog[1] # <<>>
    /\ execLog[1][1].returncode # 0
    /\ Contains(execLog[1][1].error, Marker)
    /\ execLog[2] # <<>>

\* C6: for 1 <= k < MAX_ITERATIONS, if the first k executions fail without
\* the marker and execution k+1 exits 0, then the artifact has exactly k
\* test_issues records with attempts 1..k in order, no code_issues record,
\* exactly k regeneration requests, and its content is the text returned by
\* the k-th request.
C6_RepairedAfterK ==
    \A f \in Files : \A k \in 1..(MAX_ITERATIONS - 1) :
       (/\ FirstFailPlain(f, k)
        /\ Len(execLog[f]) >= k + 1
        /\ execLog[f][k + 1].returncode = 0) =>
          /\ TestIssuesAre(f, k)
          /\ RecordsOf(failure_log, "code_issues", f) = <<>>
          /\ Len(reqLog[f]) = k
          /\ \A i \in 1..k : reqLog[f][i].status = HTTP_OK
          /\ version[f] = k
          /\ execLog[f][k + 1].version = k
          /\ content[f] = lastReply[f]
          /\ content[f] \in Texts
          /\ Len(execLog[f]) = k + 1

\* Two repairs returning different texts, then a pass.
C6_Witness ==
    \E f \in Files :
       /\ FirstFailPlain(f, 2)
       /\ Len(execLog[f]) = 3
       /\ execLog[f][3].returncode = 0
       /\ content[f] = "t2"
       /\ pc = "done"

\* C7: if all MAX_ITERATIONS executions of an artifact fail without the
\* marker, then when the loop has ended the artifact has exactly
\* MAX_ITERATIONS test_issues records (attempts 1..MAX_ITERATIONS), no
\* code_issues record, no other record, and is in Exhausted.
C7_ExhaustedAfterMax ==
    \A f \in Files :
       (FirstFailPlain(f, MAX_ITERATIONS) /\ pc \in {"done", "aborted"}) =>
          /\ TestIssuesAre(f, MAX_ITERATIONS)
          /\ RecordsOf(failure_log, "code_issues", f) = <<>>
          /\ Len(AppendedFor(f)) = MAX_ITERATIONS
          /\ artState[f] = "Exhausted"

\* C8: the regeneration request issued at attempt 3 has temperature
\* 0.4 + 0.2 and frequency_penalty and presence_penalty both 0.2 (in
\* tenths: 6, 2, 2).
C8_ThirdAttemptParameters ==
    \A f \in Files : \A i \in 1..Len(reqLog[f]) :
       reqLog[f][i].attempt = 3 =>
          /\ reqLog[f][i].temperature = BaseTemperature + 2
          /\ reqLog[f][i].frequency_penalty = 2
          /\ reqLog[f][i].presence_penalty = 2

ServiceError(f) ==
    \E i \in 1..Len(reqLog[f]) : reqLog[f][i].status \notin {0, HTTP_OK}

\* C9: when a completion call of the loop is answered with a non-success
\* status, the run is over: no step follows, the current artifact has no
\* later attempt, no later artifact is executed, and LOG_FILE is not
\* written, so it holds none of the records accumulated in failure_log.
C9_ServiceErrorAborts ==
    \A f \in Files :
       ServiceError(f) =>
          /\ pc = "aborted"
          /\ ~ENABLED Next
          /\ f = idx
          /\ reqLog[f][Len(reqLog[f])].status # HTTP_OK
          /\ \A i \in 1..(Len(reqLog[f]) - 1) : reqLog[f][i].status = HTTP_OK
          /\ Len(execLog[f]) = Len(reqLog[f])
          /\ version[f] = Len(reqLog[f]) - 1
          /\ \A g \in Files : g > f =>
                /\ execLog[g] = <<>>
                /\ reqLog[g] = <<>>
                /\ artState[g] = "Pending"
          /\ writes = 0
          /\ ledgerFile \in {NoFile, StaleLog}
          /\ Len(failure_log.test_issues) > 0
          /\ ledgerFile # failure_log

\* The second repair of the first artifact fails; a second artifact waits.
C9_Witness ==
    /\ pc = "aborted"
    /\ idx = 1
    /\ isTest[2]
    /\ Len(reqLog[1]) = 2
    /\ Len(failure_log.test_issues) = 2

NoServiceError == \A f \in Files : ~ServiceError(f)

Appended(coll) ==
    LET sel == SelectSeq(appendLog, LAMBDA e : e.coll = coll)
    IN  [i \in 1..Len(sel) |-> sel[i].rec]

Terminal == {"Passed", "CodeIssue", "Exhausted"}

\* C10: in a run without service errors LOG_FILE is written exactly once,
\* after the last attempt of the last artifact; the document is exactly the
\* records appended in this run, in append order, and nothing of an earlier
\* document; no write happens while an artifact is Pending or Running.
C10_LedgerPersistedOnce ==
    /\ writes <= 1
    /\ (writes = 1) <=> (pc = "done")
    /\ (NoServiceError /\ ~ENABLED Next) => pc = "done"
    /\ writes > 0 =>
          /\ ledgerFile = failure_log
          /\ ledgerFile.test_issues = Appended("test_issues")
          /\ ledgerFile.code_issues = Appended("code_issues")
          /\ idx = NumFiles
          /\ request = NoRequest
          /\ \A f \in Files : isTest[f] => artState[f] \in Terminal

\* Both artifacts left records of both kinds, and the run finished.
C10_Witness ==
    /\ pc = "done"
    /\ Len(RecordsOf(ledgerFile, "test_issues", 1)) = 2
    /\ Len(RecordsOf(ledgerFile, "code_issues", 1)) = 1
    /\ Len(RecordsOf(ledgerFile, "test_issues", 2)) = 3
    /\ artState[2] = "Exhausted"

\* The (file, descriptor) pairs of a store, in store order.
PairsOf(entry) == [d \in 1..entry.functions |-> <<entry.path, d>>]

RECURSIVE StorePairs(_)
StorePairs(st) ==
    IF st = <<>> THEN <<>> ELSE PairsOf(Head(st)) \o StorePairs(Tail(st))

CallPairs ==
    [i \in 1..Len(synthCalls) |->
        <<synthCalls[i].request.path, synthCalls[i].request.function>>]

\* The replies, each followed by the separator, of the calls made for the
\* descriptors mapped to artifact b, in call order.
RECURSIVE BlocksFor(_, _)
BlocksFor(calls, b) ==
    IF calls = <<>> THEN <<>>
    ELSE (IF ArtifactName(Head(calls).request.path) = b
             THEN <<Head(calls).reply, Separator>> ELSE <<>>)
         \o BlocksFor(Tail(calls), b)

ExpectedArtifact(b) ==
    IF \E i \in 1..Len(synthCalls) :
          ArtifactName(synthCalls[i].request.path) = b
       THEN BlocksFor(synthCalls, b)
       ELSE NoFile

\* C11: the completion requests of synthesis are one per (file, descriptor)
\* pair, in store order; after synthesis every artifact is exactly the
\* concatenation, in that order, of the texts returned for the descriptors
\* mapped to it, each followed by the separator.
C11_SynthesisOrder ==
    /\ Len(CallPairs) <= Len(StorePairs(metadata))
    /\ CallPairs = SubSeq(StorePairs(metadata), 1, Len(CallPairs))
    /\ spc = "synthesized" =>
          /\ CallPairs = StorePairs(metadata)
          /\ \A i \in 1..Len(synthCalls) : synthCalls[i].status = HTTP_OK
          /\ \A b \in BaseNames : folder[b] = ExpectedArtifact(b)

\* Two files of two functions each; the replies for the first file differ.
C11_Witness ==
    /\ spc = "synthesized"
    /\ Len(metadata) = 2
    /\ metadata[1].functions = 2
    /\ metadata[2].functions = 2
    /\ synthCalls[1].reply # synthCalls[2].reply
    /\ Len(folder[ArtifactName(metadata[1].path)]) >= 4

\* C12: two distinct source paths, also paths in different directories with
\* the same base name, are never synthesized into the same artifact.
C12_OneSourcePerArtifact ==
    \A i, j \in 1..Len(synthCalls) :
       (/\ synthCalls[i].status = HTTP_OK
        /\ synthCalls[j].status = HTTP_OK
        /\ ArtifactName(synthCalls[i].request.path)
              = ArtifactName(synthCalls[j].request.path)) =>
          synthCalls[i].request.path = synthCalls[j].request.path

\* C13: the repair request issued after the failure of attempt n (1-indexed)
\* has temperature, frequency_penalty and presence_penalty each equal to the
\* base value (0.4, 0.0, 0.0) plus 0.1 x n, so all three strictly increase
\* over the successive repair requests of an artifact.
C13_ParametersGrowWithAttempt ==
    \A f \in Files : \A i \in 1..Len(reqLog[f]) :
       LET n == reqLog[f][i].attempt IN
       /\ reqLog[f][i].temperature = BaseTemperature + TempStep * n
       /\ reqLog[f][i].frequency_penalty = DefaultPenalty + TempStep * n
       /\ reqLog[f][i].presence_penalty = DefaultPenalty + TempStep * n
       /\ i > 1 =>
             /\ reqLog[f][i].temperature > reqLog[f][i - 1].temperature
             /\ reqLog[f][i].frequency_penalty > reqLog[f][i - 1].frequency_penalty
             /\ reqLog[f][i].presence_penalty > reqLog[f][i - 1].presence_penalty

\* C14: no regeneration request is issued after the failure of attempt
\* MAX_ITERATIONS and the artifact is not overwritten then, so when the loop
\* has ended the content of every artifact has been executed at least once.
C14_NoRepairAfterLastAttempt ==
    \A f \in Files :
       /\ \A i \in 1..Len(reqLog[f]) : reqLog[f][i].attempt < MAX_ITERATIONS
       /\ (pc = "done" /\ execLog[f] # <<>>) =>
             version[f] = execLog[f][Len(execLog[f])].version

\* C15: the request issued at attempt n of an artifact carries the error
\* text of that artifact's attempt-n execution and the content that attempt
\* n executed (the output of the previous repair when n > 1); when it
\* returns, the content is exactly the returned text before attempt n+1
\* executes.
C15_RepairSeesLastFailure ==
    /\ \A f \in Files : \A i \in 1..Len(reqLog[f]) :
          /\ reqLog[f][i].attempt = i
          /\ Len(execLog[f]) >= i
          /\ execLog[f][i].attempt = i
          /\ reqLog[f][i].error = execLog[f][i].error
          /\ reqLog[f][i].version = execLog[f][i].version
          /\ reqLog[f][i].version = i - 1
    /\ pc = "call" =>
          /\ request # NoRequest
          /\ request.prompt.error = result.stderr
          /\ request.prompt.error = execLog[idx][attempt + 1].error
          /\ request.prompt.test = content[idx]
          /\ request.prompt.test =
                IF attempt = 0 THEN startContent[idx] ELSE lastReply[idx]
    /\ \A f \in Files :
          /\ version[f] > 0 => content[f] = lastReply[f]
          /\ version[f] = 0 => content[f] = startContent[f]
          /\ \A i \in 1..Len(execLog[f]) : execLog[f][i].version = i - 1

\* The second request of an artifact: its error differs from the error of
\* the first attempt and its test text is the reply to the first request.
C15_Witness ==
    /\ pc = "call"
    /\ attempt = 1
    /\ execLog[idx][1].error = <<>>
    /\ request.prompt.error = <<"Syntax", "Error">>
    /\ request.prompt.test = "t2"

InProgress == {"Running", "Repairing"}

\* C16: processing is strictly sequential: every step that executes an
\* artifact, appends a record for it, issues a request for it or writes it
\* belongs to the one artifact in progress; the artifacts are taken one
\* after the other, each at most once; at most one execution or request is
\* in progress; attempt n+1 of an artifact runs on the text written by the
\* repair of attempt n.
C16_StrictlySequential ==
    [][ /\ \A f \in Files :
              (\/ execLog'[f] # execLog[f]
               \/ reqLog'[f] # reqLog[f]
               \/ content'[f] # content[f]
               \/ AppendedFor(f)' # AppendedFor(f)) =>
                 (f = idx /\ idx' = idx /\ artState[f] \in InProgress)
        /\ idx' \in {idx, idx + 1}
        /\ idx' # idx =>
              /\ pc = "loop"
              /\ request = NoRequest
              /\ \A f \in Files : artState[f] \notin InProgress
              /\ artState'[idx'] \in {"Pending", "Running"}
              /\ execLog[idx'] = <<>>
        /\ Cardinality({f \in Files : artState'[f] \in InProgress}) <= 1
        /\ (request' # NoRequest) <=> (pc' = "call")
        /\ (pc' = "exec" /\ attempt' > 0) =>
              /\ version'[idx'] = attempt'
              /\ content'[idx'] = lastReply'[idx']
              /\ reqLog'[idx'][attempt'].status = HTTP_OK ]_vars

\* The second artifact is at its third attempt after the first one was
\* repaired twice.
C16_Witness ==
    /\ idx = 2
    /\ pc = "exec"
    /\ attempt = 2
    /\ Len(reqLog[1]) >= 2
    /\ artState[1] \in {"Passed", "CodeIssue", "Exhausted"}

\* C17: in a run in which every execution and every completion call returns
\* successfully, every test artifact leaves Pending and reaches one of
\* Passed, CodeIssue, Exhausted, never leaves it, and the loop ends by
\* writing LOG_FILE.
C17_EveryArtifactTerminates ==
    /\ <>(pc = "done" \/ ~NoServiceError)
    /\ [](pc = "done" =>
            /\ writes = 1
            /\ ledgerFile = failure_log
            /\ \A f \in Files : isTest[f] => artState[f] \in Terminal)
    /\ [][ \A f \in Files :
             artState[f] \in Terminal => artState'[f] = artState[f] ]_vars

C17_Witness ==
    /\ pc = "done"
    /\ NoServiceError
    /\ artState[1] = "Exhausted"
    /\ artState[2] = "CodeIssue"
    /\ Len(execLog[2]) = 2

\* The error text has the assertion marker somewhere in it.
HasMarker(err) ==
    \E i \in 1..(Len(err) - 1) : err[i] = "Assertion" /\ err[i + 1] = "Error"

LastOf(seq) == seq[Len(seq)]

\* C18: the exit code alone decides success: an execution that exits 0 ends
\* the artifact in Passed with no record, also when its error text has the
\* marker; an execution that exits non-zero is recorded in code_issues if
\* and only if its error text has the marker, otherwise in test_issues,
\* also when the error text is empty.
C18_ExitCodeThenMarker ==
    /\ \A f \in Files : \A i \in 1..Len(execLog[f]) :
          IF execLog[f][i].returncode = 0
             THEN /\ i = Len(execLog[f])
                  /\ artState[f] = "Passed"
                  /\ Len(AppendedFor(f)) = i - 1
             ELSE /\ Len(AppendedFor(f)) >= i
                  /\ AppendedFor(f)[i].rec.error = execLog[f][i].error
                  /\ (AppendedFor(f)[i].coll = "code_issues")
                        <=> HasMarker(execLog[f][i].error)
                  /\ (AppendedFor(f)[i].coll = "test_issues")
                        <=> ~HasMarker(execLog[f][i].error)
    /\ (idx >= 1 /\ execLog[idx] # <<>>) =>
          /\ result.returncode = LastOf(execLog[idx]).returncode
          /\ result.returncode # 0 =>
                /\ result.stderr = LastOf(execLog[idx]).error
                /\ LastOf(appendLog).rec.error = result.stderr
                /\ LastOf(appendLog).rec.test_file = idx
          /\ result.returncode = 0 =>
                /\ artState[idx] = "Passed"
                /\ \A i \in 1..Len(appendLog) :
                      appendLog[i].rec.test_file = idx =>
                         appendLog[i].rec.attempt < Len(execLog[idx])

\* The first artifact failed with an empty error text and was recorded as an
\* authoring issue; the second exited 0 with the marker in its error text.
C18_Witness ==
    /\ idx = 2
    /\ pc = "loop"
    /\ Len(appendLog) >= 1
    /\ appendLog[1].coll = "test_issues"
    /\ appendLog[1].rec.error = <<>>
    /\ appendLog[1].rec.test_file = 1
    /\ execLog[2] # <<>>
    /\ result.returncode = 0
    /\ HasMarker(result.stderr)
    /\ artState[2] = "Passed"
    /\ AppendedFor(2) = <<>>

\* C19: for each artifact the number of its records equals the number of
\* its executions with a non-zero exit code; an (artifact, attempt) pair has
\* at most one record over both collections; an artifact has at most one
\* code_issues record, and it is the last record appended for the artifact.
C19_LedgerMatchesFailures ==
    \A f \in Files :
       LET ti == RecordsOf(failure_log, "test_issues", f)
           ci == RecordsOf(failure_log, "code_issues", f)
       IN /\ Len(ti) + Len(ci) = Len(FailedExecs(f))
          /\ Len(AppendedFor(f)) = Len(ti) + Len(ci)
          /\ \A i, j \in 1..Len(ti) : ti[i].attempt = ti[j].attempt => i = j
          /\ \A i \in 1..Len(ti) : \A j \in 1..Len(ci) :
                ti[i].attempt # ci[j].attempt
          /\ Len(ci) <= 1
          /\ \A i \in 1..Len(AppendedFor(f)) :
                AppendedFor(f)[i].coll = "code_issues" =>
                   /\ i = Len(AppendedFor(f))
                   /\ AppendedFor(f)[i].rec = ci[1]

\* Both artifacts end with a code_issues record after authoring issues.
C19_Witness ==
    /\ pc = "done"
    /\ Len(RecordsOf(failure_log, "test_issues", 1)) = 2
    /\ Len(RecordsOf(failure_log, "code_issues", 1)) = 1
    /\ Len(RecordsOf(failure_log, "test_issues", 2)) = 1
    /\ Len(RecordsOf(failure_log, "code_issues", 2)) = 1

\* C20: when the completion call of the repair at attempt n fails, the
\* artifact is left as attempt n executed it (not emptied, not half
\* written), and the test_issues record of attempt n is already in the
\* in-memory ledger, where it was put before the call was made.
C20_FailedRepairLeavesArtifact ==
    /\ \A f \in Files :
          ServiceError(f) =>
             LET n == Len(reqLog[f])
                 ti == RecordsOf(failure_log, "test_issues", f)
             IN /\ Len(execLog[f]) = n
                /\ version[f] = execLog[f][n].version
                /\ content[f] = IF n = 1 THEN startContent[f] ELSE lastReply[f]
                /\ content[f] \in Texts \cup {SynthText}
                /\ Len(ti) = n
                /\ ti[n].attempt = n
                /\ ti[n].error = execLog[f][n].error
                /\ reqLog[f][n].attempt = n
    /\ pc = "call" =>
          LET ti == RecordsOf(failure_log, "test_issues", idx)
          IN /\ Len(ti) = attempt + 1
             /\ LastOf(ti).attempt = attempt + 1
             /\ LastOf(ti).error = request.prompt.error
             /\ LastOf(failure_log.test_issues) = LastOf(ti)

\* The third repair call fails after two successful repairs.
C20_Witness ==
    /\ pc = "aborted"
    /\ ServiceError(idx)
    /\ Len(reqLog[idx]) = 3
    /\ content[idx] = "t2"
    /\ Len(failure_log.test_issues) = 3

====
